---- MODULE Spec2Model ----
(***************************************************************************)
(* PublicRestClient of lcx-api: a client object holding two base URLs and  *)
(* an axios instance, and seven public async operations that each issue    *)
(* one GET through getWithBaseUrl or getWithKlineUrl.                      *)
(*                                                                         *)
(* An async helper runs in two segments: up to its `await` (the request is *)
(* handed to axios) and from the `await` on (the status check).  Several   *)
(* invocations may be suspended at their await at the same time.           *)
(***************************************************************************)
EXTENDS Integers, Sequences, FiniteSets, TLC

\* Number of invocations that may be in flight on the client at once.
MaxCalls == 2

Calls == 1..MaxCalls

\* The JavaScript value `undefined` for an optional string field.
undefined == "<undefined>"

----------------------------------------------------------------------------
(* Constructor *)

\* `new PublicRestClient(config?, axiosConfig?)`: the first argument is either
\* absent or a PublicRestClientConfig whose two fields are each optional.
\* (An empty string is a provided value: ?? replaces only null and undefined.)
ConfigInputs ==
    {[given |-> FALSE],
     [given |-> TRUE, baseUrl |-> undefined, klineUrl |-> undefined],
     [given |-> TRUE, baseUrl |-> "http://localhost:8080/api", klineUrl |-> undefined],
     [given |-> TRUE, baseUrl |-> undefined, klineUrl |-> "http://localhost:8081"],
     [given |-> TRUE, baseUrl |-> "", klineUrl |-> "http://localhost:8081"]}

\* The second argument: absent (axios defaults), or a CreateAxiosDefaults that
\* sets validateStatus to accept every status.
AxiosConfigInputs == {"default", "acceptAll"}

defaultConfig ==
    [given |-> TRUE,
     baseUrl |-> "https://exchange-api.lcx.com/",
     klineUrl |-> "https://api-kline.lcx.com/"]

\* a ?? b on an optional string
Coalesce(a, b) == IF a = undefined THEN b ELSE a

constructor(cfg, axiosConfig) ==
    LET c == IF cfg.given THEN cfg ELSE defaultConfig
    IN  [config        |-> c,
         axiosInstance |-> axiosConfig,
         baseUrl       |-> Coalesce(c.baseUrl, defaultConfig.baseUrl),
         klineUrl      |-> Coalesce(c.klineUrl, defaultConfig.klineUrl)]

----------------------------------------------------------------------------
VARIABLES
    ctorArgs,       \* the arguments the client was constructed with
    config,         \* this.config
    axiosInstance,  \* this.axiosInstance (the defaults it was created with)
    baseUrl,        \* this.baseUrl
    klineUrl,       \* this.klineUrl
    caller,         \* per invocation: the public operation and its argument
    calls,          \* per invocation: the helper's frame, suspended at await
    settled         \* the invocation that settled last, as its caller saw it

client == <<ctorArgs, config, axiosInstance, baseUrl, klineUrl>>
vars == <<ctorArgs, config, axiosInstance, baseUrl, klineUrl, caller, calls, settled>>

----------------------------------------------------------------------------
(* Request parameters *)

\* A parameter record is the set of its key/value pairs (numbers written as
\* their decimal literal); a helper called without params has none.
NoParams == [given |-> FALSE, fields |-> {}]
Params(fs) == [given |-> TRUE, fields |-> fs]

OrderbookRequestParams == {Params({<<"pair", "LCX/USDC">>})}
KlineRequestParams ==
    {Params({<<"pair", "LCX/USDC">>, <<"resolution", "1">>,
             <<"from", "1700000000">>, <<"to", "1700003600">>})}
TradeRequestParams ==
    {Params({<<"pair", "LCX/USDC">>, <<"offset", o>>}) : o \in {"1", "2"}}
PairRequestParams == {Params({<<"pair", "LCX/ETH">>})}
TickerRequestParams == {Params({<<"pair", "LCX/USDC">>})}

----------------------------------------------------------------------------
(* Transport: what axiosInstance.get settles with *)

JsonHeaders == [contentType |-> "application/json"]

\* ApiResponse envelopes a server may send (the failure envelope with any
\* status, 200 included).
ApiResponseOk ==
    [status |-> "success", message |-> "Successfully API response",
     count |-> "2", data |-> "payload"]
ApiResponseError ==
    [status |-> "failed", message |-> "Invalid pair",
     count |-> undefined, data |-> undefined]
NoBody ==
    [status |-> undefined, message |-> undefined,
     count |-> undefined, data |-> undefined]

AxiosResponse(st, body) ==
    [status |-> st, headers |-> JsonHeaders, data |-> body]

\* What comes back for one request: an HTTP response, or nothing at all
\* (connection refused, DNS failure, timeout).
Replies ==
    {[received |-> TRUE, response |-> AxiosResponse(200, ApiResponseOk)],
     [received |-> TRUE, response |-> AxiosResponse(200, ApiResponseError)],
     [received |-> TRUE, response |-> AxiosResponse(204, NoBody)],
     [received |-> TRUE, response |-> AxiosResponse(304, NoBody)],
     [received |-> TRUE, response |-> AxiosResponse(404, ApiResponseError)],
     [received |-> TRUE, response |-> AxiosResponse(500, ApiResponseError)],
     [received |-> FALSE]}

\* validateStatus of the instance: axios' default accepts 2xx only.
validateStatus(instance, st) ==
    IF instance = "default" THEN st >= 200 /\ st < 300 ELSE TRUE

\* The settled promise of axiosInstance.get(path, requestConfig).
axiosGet(instance, reply) ==
    IF ~reply.received
    THEN [fulfilled |-> FALSE,
          value |-> [name |-> "AxiosError", code |-> "ERR_NETWORK",
                     hasResponse |-> FALSE]]
    ELSE IF validateStatus(instance, reply.response.status)
    THEN [fulfilled |-> TRUE, value |-> reply.response]
    ELSE [fulfilled |-> FALSE,
          value |-> [name |-> "AxiosError",
                     code |-> IF reply.response.status >= 500
                              THEN "ERR_BAD_RESPONSE"
                              ELSE IF reply.response.status >= 400
                              THEN "ERR_BAD_REQUEST" ELSE undefined,
                     hasResponse |-> TRUE,
                     response |-> reply.response]]

----------------------------------------------------------------------------
(* The helpers *)

Idle == [pc |-> "idle", wire |-> <<>>]
NotCalled == [op |-> "none", params |-> NoParams]
NoneSettled == [op |-> "none"]

Return(v) == [kind |-> "return", value |-> v]
Throw(v) == [kind |-> "throw", value |-> v]

\* Variant of getWithKlineUrl that leaves the kline URL behind in this.baseUrl.
getWithKlineUrl_SetsBase(c, path, params) ==
    /\ calls[c].pc = "idle"
    /\ calls' = [calls EXCEPT ![c] =
          [pc |-> "getWithKlineUrl",
           wire |-> <<[method |-> "get", baseURL |-> klineUrl, url |-> path,
                       headers |-> JsonHeaders, params |-> params]>>]]
    /\ baseUrl' = klineUrl
    /\ UNCHANGED <<ctorArgs, config, axiosInstance, klineUrl, settled>>

\* getWithBaseUrl up to its await: the request handed to axios.
getWithBaseUrl(c, path, params) ==
    /\ calls[c].pc = "idle"
    /\ calls' = [calls EXCEPT ![c] =
          [pc |-> "getWithBaseUrl",
           wire |-> <<[method |-> "get", baseURL |-> baseUrl, url |-> path,
                       headers |-> JsonHeaders, params |-> params]>>]]
    /\ UNCHANGED <<client, settled>>

\* getWithKlineUrl up to its await.
getWithKlineUrl(c, path, params) ==
    /\ calls[c].pc = "idle"
    /\ calls' = [calls EXCEPT ![c] =
          [pc |-> "getWithKlineUrl",
           wire |-> <<[method |-> "get", baseURL |-> klineUrl, url |-> path,
                       headers |-> JsonHeaders, params |-> params]>>]]
    /\ UNCHANGED <<client, settled>>

\* Variant of the status check that takes every 2xx for a success.
getWithBaseUrlOutcome_Any2xx(promise) ==
    IF ~promise.fulfilled THEN Throw(promise.value)
    ELSE IF promise.value.status >= 200 /\ promise.value.status < 300
    THEN Return(promise.value.data)
    ELSE Throw(promise.value)

\* Variant that returns the transport response instead of its body.
getWithKlineUrlOutcome_WholeResponse(promise) ==
    IF ~promise.fulfilled THEN Throw(promise.value)
    ELSE IF promise.value.status = 200 THEN Return(promise.value)
    ELSE Throw(promise.value)

\* getWithBaseUrl from its await on: a rejected promise propagates, a
\* fulfilled one goes through the status check.
\* Variant that also raises a 200 response whose envelope is not "success".
getWithBaseUrlOutcome_EnvelopeCheck(promise) ==
    IF ~promise.fulfilled THEN Throw(promise.value)
    ELSE IF promise.value.status = 200 /\ promise.value.data.status = "success"
    THEN Return(promise.value.data)
    ELSE Throw(promise.value)

getWithBaseUrlOutcome(promise) ==
    IF ~promise.fulfilled THEN Throw(promise.value)
    ELSE IF promise.value.status = 200 THEN Return(promise.value.data)
    ELSE Throw(promise.value)

getWithKlineUrlOutcome(promise) ==
    IF ~promise.fulfilled THEN Throw(promise.value)
    ELSE IF promise.value.status = 200 THEN Return(promise.value.data)
    ELSE Throw(promise.value)

Settle(c, reply, promise, outcome) ==
    /\ settled' = [op |-> caller[c].op, params |-> caller[c].params,
                   wire |-> calls[c].wire, reply |-> reply,
                   fulfilled |-> promise.fulfilled, outcome |-> outcome]
    /\ calls' = [calls EXCEPT ![c] = Idle]
    /\ caller' = [caller EXCEPT ![c] = NotCalled]
    /\ UNCHANGED client

\* Variant that sends the request a second time after a failed first attempt.
getWithBaseUrlResume_Retry(c, reply) ==
    /\ calls[c].pc = "getWithBaseUrl"
    /\ LET promise == axiosGet(axiosInstance, reply)
           outcome == getWithBaseUrlOutcome(promise)
       IN  IF outcome.kind = "throw" /\ Len(calls[c].wire) = 1
           THEN /\ calls' = [calls EXCEPT ![c].wire = @ \o @]
                /\ UNCHANGED <<client, caller, settled>>
           ELSE Settle(c, reply, promise, outcome)

getWithBaseUrlResume(c, reply) ==
    /\ calls[c].pc = "getWithBaseUrl"
    /\ LET promise == axiosGet(axiosInstance, reply)
       IN  Settle(c, reply, promise, getWithBaseUrlOutcome(promise))

getWithKlineUrlResume(c, reply) ==
    /\ calls[c].pc = "getWithKlineUrl"
    /\ LET promise == axiosGet(axiosInstance, reply)
       IN  Settle(c, reply, promise, getWithKlineUrlOutcome(promise))

----------------------------------------------------------------------------
(* The public operations *)

Invoke(c, op, params) == caller' = [caller EXCEPT ![c] = [op |-> op, params |-> params]]

getOrderbook(c, params) ==
    /\ getWithBaseUrl(c, "/api/book", params)
    /\ Invoke(c, "getOrderbook", params)

\* Variant of getKline that goes through the main base URL.
getKline_MainBase(c, params) ==
    /\ getWithBaseUrl(c, "/v1/market/kline", params)
    /\ Invoke(c, "getKline", params)

getKline(c, params) ==
    /\ getWithKlineUrl(c, "/v1/market/kline", params)
    /\ Invoke(c, "getKline", params)

\* Variant of getTrades that forwards the pair only.
getTrades_PairOnly(c, params) ==
    /\ getWithBaseUrl(c, "/api/trades",
                      Params({f \in params.fields : f[1] = "pair"}))
    /\ Invoke(c, "getTrades", params)

getTrades(c, params) ==
    /\ getWithBaseUrl(c, "/api/trades", params)
    /\ Invoke(c, "getTrades", params)

getPairs(c) ==
    /\ getWithBaseUrl(c, "/api/pairs", NoParams)
    /\ Invoke(c, "getPairs", NoParams)

getPair(c, params) ==
    /\ getWithBaseUrl(c, "/api/pair", params)
    /\ Invoke(c, "getPair", params)

getTickers(c) ==
    /\ getWithBaseUrl(c, "/api/tickers", NoParams)
    /\ Invoke(c, "getTickers", NoParams)

getTicker(c, params) ==
    /\ getWithBaseUrl(c, "/api/ticker", params)
    /\ Invoke(c, "getTicker", params)

----------------------------------------------------------------------------
Init ==
    \E cfg \in ConfigInputs, axiosConfig \in AxiosConfigInputs :
        LET this == constructor(cfg, axiosConfig)
        IN  /\ ctorArgs = [config |-> cfg, axiosConfig |-> axiosConfig]
            /\ config = this.config
            /\ axiosInstance = this.axiosInstance
            /\ baseUrl = this.baseUrl
            /\ klineUrl = this.klineUrl
            /\ caller = [c \in Calls |-> NotCalled]
            /\ calls = [c \in Calls |-> Idle]
            /\ settled = NoneSettled

Next ==
    \E c \in Calls :
        \/ \E p \in OrderbookRequestParams : getOrderbook(c, p)
        \/ \E p \in KlineRequestParams : getKline(c, p)
        \/ \E p \in TradeRequestParams : getTrades(c, p)
        \/ getPairs(c)
        \/ \E p \in PairRequestParams : getPair(c, p)
        \/ getTickers(c)
        \/ \E p \in TickerRequestParams : getTicker(c, p)
        \/ \E reply \in Replies : getWithBaseUrlResume(c, reply)
        \/ \E reply \in Replies : getWithKlineUrlResume(c, reply)

Spec == Init /\ [][Next]_vars

----------------------------------------------------------------------------
(* Properties *)

Busy == {c \in Calls : calls[c].pc # "idle"}
HasSettled == settled.op # "none"
SettledStatus == settled.reply.response.status
GotResponse == HasSettled /\ settled.reply.received
Operations ==
    {"getOrderbook", "getKline", "getTrades", "getPairs", "getPair",
     "getTickers", "getTicker"}

\* C1: whenever the response to an operation's request has a status other
\* than 200 (other 2xx included), the call throws and returns no value.
C1_Non200Rejects ==
    (GotResponse /\ SettledStatus # 200) => settled.outcome.kind = "throw"

C1_Witness ==
    /\ GotResponse /\ settled.op = "getPairs"
    /\ SettledStatus = 204 /\ settled.outcome.kind = "throw"

\* C2: on every non-200 status the value thrown is the raw transport
\* response itself, unmodified, under the default transport configuration
\* as under a caller-supplied one.
C2_RawResponseThrown ==
    (GotResponse /\ SettledStatus # 200)
        => settled.outcome = Throw(settled.reply.response)

\* C3: whenever the response has status 200 the operation resolves with
\* exactly the body the transport delivered.
C3_OkReturnsBody ==
    (GotResponse /\ SettledStatus = 200)
        => settled.outcome = Return(settled.reply.response.data)

C3_Witness ==
    /\ GotResponse /\ settled.op = "getKline" /\ SettledStatus = 200
    /\ settled.outcome.kind = "return"
    /\ settled.outcome.value.status = "failed"
    /\ settled.outcome.value.count = undefined

\* C4: an invocation issues exactly one GET over its lifetime, whatever its
\* outcome; none before it is invoked and none after it has settled.
C4_ExactlyOneGet ==
    /\ \A c \in Calls :
          /\ calls[c].pc = "idle" => calls[c].wire = <<>>
          /\ calls[c].pc # "idle" =>
                Len(calls[c].wire) = 1 /\ calls[c].wire[1].method = "get"
    /\ HasSettled =>
          Len(settled.wire) = 1 /\ settled.wire[1].method = "get"

C4_Witness ==
    /\ HasSettled /\ settled.outcome.kind = "throw"
    /\ settled.op \in {"getOrderbook", "getTicker"}
    /\ Len(settled.wire) = 1

\* C5: each operation's request goes to its fixed path on its fixed base:
\* the six /api/... paths on the main base URL, /v1/market/kline on the
\* kline base URL, and nowhere else.
EndpointOf(op) ==
    CASE op = "getOrderbook" -> "/api/book"
      [] op = "getTrades"    -> "/api/trades"
      [] op = "getPairs"     -> "/api/pairs"
      [] op = "getPair"      -> "/api/pair"
      [] op = "getTickers"   -> "/api/tickers"
      [] op = "getTicker"    -> "/api/ticker"
      [] op = "getKline"     -> "/v1/market/kline"

RoutedRight(op, wire) ==
    \A i \in DOMAIN wire :
        /\ wire[i].url = EndpointOf(op)
        /\ wire[i].baseURL = IF op = "getKline" THEN klineUrl ELSE baseUrl

C5_FixedRoutes ==
    /\ \A c \in Busy : RoutedRight(caller[c].op, calls[c].wire)
    /\ HasSettled => RoutedRight(settled.op, settled.wire)

C5_Witness ==
    /\ baseUrl # klineUrl
    /\ \E c \in Busy : caller[c].op = "getKline"
    /\ \E c \in Busy : caller[c].op = "getTicker"

\* C6: the query parameters of the outgoing request are exactly the caller's
\* key/value pairs; getPairs and getTickers send none.
SameParams(op, params, wire) ==
    \A i \in DOMAIN wire :
        IF op \in {"getPairs", "getTickers"}
        THEN wire[i].params.fields = {}
        ELSE wire[i].params = params

C6_ParamsVerbatim ==
    /\ \A c \in Busy : SameParams(caller[c].op, caller[c].params, calls[c].wire)
    /\ HasSettled => SameParams(settled.op, settled.params, settled.wire)

C6_Witness ==
    /\ \E c \in Busy :
          /\ caller[c].op = "getTrades"
          /\ <<"offset", "2">> \in calls[c].wire[1].params.fields
    /\ \E c \in Busy : caller[c].op = "getTickers"

\* C8: each base URL is the caller's when provided and otherwise its
\* documented default, "https://exchange-api.lcx.com/" for the main base and
\* "https://api-kline.lcx.com" for the kline base.
GivenBaseUrl ==
    IF ctorArgs.config.given THEN ctorArgs.config.baseUrl ELSE undefined
GivenKlineUrl ==
    IF ctorArgs.config.given THEN ctorArgs.config.klineUrl ELSE undefined

C8_DocumentedDefaults ==
    /\ baseUrl = IF GivenBaseUrl # undefined THEN GivenBaseUrl
                 ELSE "https://exchange-api.lcx.com/"
    /\ klineUrl = IF GivenKlineUrl # undefined THEN GivenKlineUrl
                  ELSE "https://api-kline.lcx.com"

\* C9: concurrent calls are independent: a call's request is determined by
\* its own operation and arguments, its outcome by the reply to its own
\* request; a step of one call leaves every other call as it was, and no
\* call changes the client's base URL, kline URL or config.
ExpectedOutcome(reply) ==
    IF ~reply.received THEN "throw"
    ELSE IF reply.response.status = 200 THEN "return" ELSE "throw"

C9_OwnRequestOwnOutcome ==
    /\ \A c \in Busy :
          /\ RoutedRight(caller[c].op, calls[c].wire)
          /\ SameParams(caller[c].op, caller[c].params, calls[c].wire)
    /\ HasSettled => settled.outcome.kind = ExpectedOutcome(settled.reply)

C9_StepOfOneCall ==
    /\ UNCHANGED <<config, axiosInstance, baseUrl, klineUrl>>
    /\ \A c, d \in Calls :
          (c # d /\ calls'[c] # calls[c])
              => (calls'[d] = calls[d] /\ caller'[d] = caller[d])

C9_Independent == [](C9_OwnRequestOwnOutcome) /\ [][C9_StepOfOneCall]_vars

C9_Witness ==
    /\ HasSettled
    /\ \A c \in Calls : calls[c].pc # "idle"
    /\ \E c, d \in Calls : calls[c].pc # calls[d].pc

\* C10 as stated: a call throws only if a response with a status other than
\* 200 was received for its request.
C10_OnlyNon200Fails ==
    (HasSettled /\ settled.outcome.kind = "throw")
        => (settled.reply.received /\ SettledStatus # 200)

\* C10 as amended: a call throws only if a response with a status other than
\* 200 was received for its request, or the transport itself rejected the
\* request, as it does when no response arrives.
C10_OnlyNon200OrTransportFails ==
    /\ (HasSettled /\ settled.outcome.kind = "throw")
          => \/ settled.reply.received /\ SettledStatus # 200
             \/ ~settled.fulfilled
    /\ (HasSettled /\ ~settled.reply.received) => ~settled.fulfilled

C10_Witness ==
    /\ HasSettled /\ ~settled.reply.received /\ ~settled.fulfilled
    /\ settled.outcome.kind = "throw"
    /\ settled.outcome.value.code = "ERR_NETWORK"

====
